---- MODULE Spec2Model ----
(***************************************************************************)
(* nblfq: a bounded lock-free MPMC FIFO queue over a circular array of     *)
(* (counter, pointer) cells (src/src/arrayqueue.rs).  Every atomic load,   *)
(* compare-exchange and store of push, pop and force_push is one step of   *)
(* the calling thread; atomics are taken to be sequentially consistent.    *)
(* A pointer is modelled by the identity of the pushed item (a positive    *)
(* number); 0 is the null pointer.  In the mode "aba" every push passes    *)
(* the same pointer.                                                       *)
(***************************************************************************)
EXTENDS Integers, Sequences, FiniteSets, TLC

(* ---------------------------------------------------------------- bounds *)
\* largest capacity N of the ring (HeapBackedQueue::new(size), HeaplessQueue<N, _>)
MaxCap == 3
\* number of public calls started in a concurrent run
MaxOps == 4
\* number of public calls started in a single-threaded run
SeqOps == 8
\* number of public calls started by one producer and one consumer
SpscOps == 8
\* number of public calls started when one pointer is pushed again and again
AbaOps == 6
\* number of public calls started in a single-threaded run under arbitrary hints
HintOps == 7
\* counters studied at full width: digits within EdgeWidth of 0 and of 2^16
EdgeWidth == 2

(* ------------------------------------------------------------- constants *)
\* TaggedItemInner::MAX_W = u16::MAX as u64 + 1
MAX_W == 65536

Procs == {1, 2}
NULL == 0

VARIABLES
    N,          \* the capacity given at construction (buffer.len())
    buffer,     \* buffer[i] = [count, ptr]: the cell i of the ring
    head,       \* the head hint (AtomicUsize)
    tail,       \* the tail hint (AtomicUsize)
    pc,         \* pc[t]: where thread t stands in its call
    op,         \* op[t]: the public call thread t is in (or made last)
    idx,        \* idx[t]: the local `head` of push / `tail` of pop
    pv,         \* pv[t]: (prev_count, prev_ptr) as read
    cv,         \* cv[t]: (current_count, current_ptr) as read
    item,       \* item[t]: the pointer passed to push (force_push: container)
    popped,     \* popped[t]: force_push's popped_item (NULL: None)
    ret,        \* ret[t]: what the last call of t returned
    ops,        \* number of public calls started so far
    mode,       \* the client program: "mpmc", "spsc", "seq", "aba", "hint", ...
    iterating,  \* the queue was moved into its draining iterator
    absq,       \* the sequential FIFO queue, stepped at the linearization points
    absret,     \* absret[t]: what the sequential queue answered to t's call
    pushedSeq,  \* items in the order of their successful push CAS
    poppedSeq,  \* items in the order of their successful pop CAS
    handed,     \* handed[x]: how often item x was returned by pop / force_push
    qAtCall,    \* qAtCall[t]: stored items, oldest first, when t's call started
    ltail,      \* ltail[t]: the local `tail` of len (its `head` is idx[t])
    quiet,      \* quiet[t]: no other call was in progress since t's len began
    scan,       \* scan[t]: slots t moved past since the last successful CAS
    installed,  \* installed[i]: the counter the last successful push put in slot i
    wrote,      \* wrote[t]: t's call of push / pop changed a slot or a hint
    moved,      \* moved[t]: t's call of push / pop advanced its local index
    arith,      \* the counter computation under study (SpecArith)
    order,      \* the comparison of two slots under study (SpecComp)
    word        \* the tagged word under study (SpecTagged)

vars == << N, buffer, head, tail, pc, op, idx, pv, cv, item, popped, ret, ops,
           mode, iterating, absq, absret, pushedSeq, poppedSeq, handed,
           qAtCall, ltail, quiet, scan, installed, wrote, moved, arith,
           order, word >>

(* --------------------------------------------------------------- helpers *)
\* mutant: no wrap-around below index 0
prev_NoWrap(i, size) == i - 1

\* utils.rs: prev
prev(i, size) == (i + size - 1) % size

\* mutant: the counters are not compared
comp_IndexOnly(i, u, j, v, w_max) == i < j

\* utils.rs: comp.  With u, v < MAX_W = 2^16 the sum v + w_max - u never
\* wraps a u64, so wrapping_add / wrapping_sub are the plain operations.
comp(i, u, j, v, w_max) ==
    IF u = v THEN i < j
    ELSE ((v + w_max - u) % w_max) < (w_max \div 2)

Cell(c, p) == [count |-> c, ptr |-> p]
EmptyCell == Cell(0, NULL)
NoRet == [kind |-> "-", val |-> NULL]
\* no push has written the slot yet
NoPush == [pushed |-> FALSE, count |-> 0]
\* no counter computation is under study
NoArith == [enc |-> "-", branch |-> "-", x |-> << >>, out |-> << >>,
            checks |-> FALSE, over |-> FALSE, panic |-> FALSE]
\* no comparison of two slots is under study
NoOrder == [enc |-> "-", i |-> 0, u |-> << >>, j |-> 0, v |-> << >>,
            did |-> {}, fwd |-> FALSE, bwd |-> FALSE]
\* no tagged word is under study
NoWord == [count |-> << >>, ptr |-> << >>, did |-> {}, asserted |-> TRUE,
           tagged |-> << >>, back |-> [count |-> << >>, ptr |-> << >>]]
\* the queue is modelled, none of the conversions and comparisons alone
Unstudied == order = NoOrder /\ word = NoWord
Ret(k, v) == [kind |-> k, val |-> v]

Limit ==
    CASE mode = "seq" -> SeqOps [] mode = "spsc" -> SpscOps
      [] mode = "aba" -> AbaOps [] mode = "hint" -> HintOps [] OTHER -> MaxOps
ItemIds == 1 .. Limit

\* the items held by the ring
StoredItems == {buffer[i].ptr : i \in DOMAIN buffer} \ {NULL}
\* number of cells holding an item
Stored == Cardinality({i \in DOMAIN buffer : buffer[i].ptr # NULL})
\* the stored items, oldest push first
RingSeq == SelectSeq(pushedSeq, LAMBDA x : x \in StoredItems)

Range(s) == {s[i] : i \in DOMAIN s}
IsPrefix(s, t) == Len(s) <= Len(t) /\ SubSeq(t, 1, Len(s)) = s

(* ------------------------------------------------------------------ Init *)
\* ArrayQueue::new_in, FixedBuf::new / HeaplessBuf::new, Item::new
InitQueue(m) ==
    /\ mode = m
    /\ N \in 1 .. MaxCap
    /\ buffer = [i \in 0 .. (N - 1) |-> EmptyCell]
    /\ head = 0
    /\ tail = 0
    /\ pc = [t \in Procs |-> "idle"]
    /\ op = [t \in Procs |-> "none"]
    /\ idx = [t \in Procs |-> 0]
    /\ pv = [t \in Procs |-> EmptyCell]
    /\ cv = [t \in Procs |-> EmptyCell]
    /\ item = [t \in Procs |-> NULL]
    /\ popped = [t \in Procs |-> NULL]
    /\ ret = [t \in Procs |-> NoRet]
    /\ ops = 0
    /\ iterating = FALSE
    /\ absq = << >>
    /\ absret = [t \in Procs |-> NoRet]
    /\ pushedSeq = << >>
    /\ poppedSeq = << >>
    /\ handed = [x \in ItemIds |-> 0]
    /\ qAtCall = [t \in Procs |-> << >>]
    /\ ltail = [t \in Procs |-> 0]
    /\ quiet = [t \in Procs |-> FALSE]
    /\ scan = [t \in Procs |-> 0]
    /\ installed = [i \in 0 .. (N - 1) |-> NoPush]
    /\ wrote = [t \in Procs |-> FALSE]
    /\ moved = [t \in Procs |-> FALSE]

Init == InitQueue("mpmc") /\ arith = NoArith /\ Unstudied
InitSPSC == InitQueue("spsc") /\ arith = NoArith /\ Unstudied
InitSeq == InitQueue("seq") /\ arith = NoArith /\ Unstudied
\* any number of producers and consumers, or one producer and one consumer
InitAnyLen == (InitQueue("mpmc") \/ InitQueue("spsc")) /\ arith = NoArith /\ Unstudied
\* one thread, the hints being anything between its calls
InitHint == InitQueue("hint") /\ arith = NoArith /\ Unstudied
\* capacity 1: the predecessor slot is the current slot
InitABA == InitQueue("aba") /\ N = 1 /\ arith = NoArith /\ Unstudied

(* ------------------------------------------------- the code's pure parts *)
\* mutant: a plain store, nothing is compared
cmpxchg_Blind(cell, old_ptr, old_count) == TRUE

\* mutant: the compare looks at the pointer and forgets the counter
cmpxchg_PtrOnly(cell, old_ptr, old_count) == cell.ptr = old_ptr

\* ItemInner::cmpxchg: the compare of compare_exchange on the packed word
cmpxchg(cell, old_ptr, old_count) == cell = Cell(old_count, old_ptr)

\* mutant: the verdicts "empty" and "full" are taken without asking comp
PushSearch_NoComp(prev_idx, p, h, c) ==
    IF p.ptr # NULL /\ c.ptr = NULL THEN "accept"
    ELSE IF p.ptr = NULL /\ c.ptr = NULL THEN "accept"
    ELSE IF p.ptr # NULL /\ c.ptr # NULL THEN "full"
    ELSE "advance"

\* ArrayQueue::push, the inner search loop's verdict on one pair of reads
PushSearch(prev_idx, p, h, c) ==
    IF p.ptr # NULL /\ c.ptr = NULL THEN "accept"
    ELSE IF ~comp(prev_idx, p.count, h, c.count, MAX_W)
            /\ p.ptr = NULL /\ c.ptr = NULL THEN "accept"
    ELSE IF ~comp(prev_idx, p.count, h, c.count, MAX_W)
            /\ p.ptr # NULL /\ c.ptr # NULL THEN "full"
    ELSE "advance"

\* mutant: no increment at the wrap-around slot
NewCounter_NoWrap(count, prev_ptr, h) ==
    IF prev_ptr = NULL THEN (count + MAX_W - 1) % MAX_W ELSE count

\* ArrayQueue::push, the counter to install
NewCounter(count, prev_ptr, h) ==
    LET dec == IF prev_ptr = NULL THEN (count + MAX_W - 1) % MAX_W ELSE count
    IN  IF h = 0 THEN (dec + 1) % MAX_W ELSE dec

\* mutant: no return after the commit, the outer loop goes round again
AfterPushCas_Loop(ok) == "push_prev"

\* ArrayQueue::push, after the CAS: is_ok() leads to the store of head and
\* return Ok(()), a lost CAS to the next round of the outer loop
AfterPushCas(ok) == IF ok THEN "push_store" ELSE "push_prev"

\* mutant: the tail hint is trusted, no stale tail is skipped
PopSkip_Never(prev_idx, p, i, c) == FALSE

\* ArrayQueue::pop, the skip loop's condition
PopSkip(prev_idx, p, i, c) == comp(prev_idx, p.count, i, c.count, MAX_W)

\* mutant: || for &&
PopEmpty_Or(p, c) == p.ptr = NULL \/ c.ptr = NULL

\* ArrayQueue::pop, the empty test after the skip loop
PopEmpty(p, c) == p.ptr = NULL /\ c.ptr = NULL

\* mutant: pop leaves the counter as it was
NextCount_Same(current_count) == current_count

\* ArrayQueue::pop, the counter left in the cell
NextCount(current_count) == (current_count + 1) % MAX_W

\* mutant: the popped value is discarded (self.pop(); without the assignment)
ForcePopped_Discard(old, r) == old

\* force_push: popped_item = self.pop(), r being what pop returned
ForcePopped(old, r) == r.val

\* mutant: the wrap-around branch adds where it should subtract
len_WrapAdd(h, tl, cap) == IF h < tl THEN cap + tl - h ELSE h - tl

\* ArrayQueue::len, head != tail
len_Differ(h, tl, cap) == IF h < tl THEN cap - tl + h ELSE h - tl

\* mutant: the slot is not looked at, equal hints mean empty
len_AlwaysEmpty(ptr, cap) == 0

\* ArrayQueue::len, head = tail: the slot at head tells full from empty
len_Same(ptr, cap) == IF ptr = NULL THEN 0 ELSE cap

\* ArrayQueue::len run from the hints h, tl while no other call is in progress
len_Alone(h, tl, buf, cap) ==
    IF h # tl THEN len_Differ(h, tl, cap) ELSE len_Same(buf[h].ptr, cap)

\* what the observer o makes of self.len() = n: len, is_empty, is_full
Observed(o, n, cap) ==
    CASE o = "is_empty" -> Ret(IF n = 0 THEN "true" ELSE "false", NULL)
      [] o = "is_full" -> Ret(IF n = cap THEN "true" ELSE "false", NULL)
      [] OTHER -> Ret("Len", n)

(* --------------------------------------------------- calls and returns *)
MayPush(t) == mode \in {"mpmc", "aba"} \/ t = 1
MayPop(t) ==
    \/ mode \in {"mpmc", "aba"}
    \/ (mode \in {"seq", "hint"} /\ t = 1)
    \/ (mode = "spsc" /\ t = 2)

\* the pointer a push passes in: a fresh one (Box::into_raw(Box::new(item))),
\* or, in "aba", the one &'static T that HeaplessQueue::push is given each time
NextItem == IF mode = "aba" THEN 1 ELSE ops + 1
MayForce(t) == mode = "mpmc" \/ (mode = "seq" /\ t = 1)

\* the observers that run ArrayQueue::len
LenOps == {"len", "is_empty", "is_full"}

\* A public call starts, with a fresh item x for push / force_push.  push makes
\* its first shared access, let mut head = self.head.load(Acquire), which is
\* outside its loops; pop loads tail inside its loop (PopLoadTail).
Call(t, o, start, x, hint) ==
    /\ pc[t] = "idle"
    /\ ops < Limit
    /\ ops' = ops + 1
    /\ op' = [op EXCEPT ![t] = o]
    /\ pc' = [pc EXCEPT ![t] = start]
    /\ idx' = [idx EXCEPT ![t] = hint]
    /\ item' = [item EXCEPT ![t] = x]
    /\ ret' = [ret EXCEPT ![t] = NoRet]
    /\ absret' = [absret EXCEPT ![t] = NoRet]
    /\ qAtCall' = [qAtCall EXCEPT ![t] =
                        IF mode \in {"seq", "hint"} THEN RingSeq ELSE << >>]
    /\ quiet' = [u \in Procs |->
                    u = t /\ o \in LenOps /\ \A w \in Procs \ {t} : pc[w] = "idle"]
    /\ scan' = [scan EXCEPT ![t] = 0]
    /\ wrote' = [wrote EXCEPT ![t] = FALSE]
    /\ moved' = [moved EXCEPT ![t] = FALSE]
    /\ UNCHANGED << N, order, word, arith, installed, ltail, buffer, head, tail, pv, cv,
                    popped, mode, absq, pushedSeq, poppedSeq, handed >>

\* ArrayQueue::push / ArrayQueue::pop returns r.  The caller is the client, or
\* force_push's loop: there Err leads to the back-off and pop, a pop's answer
\* to the assignment of popped_item, and Ok ends the loop, force_push
\* returning popped_item.
Return(t, r) ==
    LET force == op[t] = "force_push"
        out == IF force /\ r.kind = "Ok"
               THEN (IF popped[t] = NULL THEN Ret("None", NULL)
                     ELSE Ret("Some", popped[t]))
               ELSE r
    IN  /\ ret' = [ret EXCEPT ![t] = out]
        /\ pc' = [pc EXCEPT ![t] =
                    IF force /\ r.kind = "Err" THEN "fp_spin"
                    ELSE IF force /\ r.kind # "Ok" THEN "fp_assign"
                    ELSE "idle"]
        /\ item' = [item EXCEPT ![t] = IF force /\ r.kind # "Ok" THEN @ ELSE NULL]
        /\ popped' = [popped EXCEPT ![t] = IF force /\ r.kind # "Ok" THEN @ ELSE NULL]
        /\ handed' = IF pc'[t] = "idle" /\ out.kind = "Some"
                     THEN [handed EXCEPT ![out.val] = @ + 1] ELSE handed
        /\ absret' = [absret EXCEPT ![t] =
                        IF force /\ r.kind = "Ok" THEN NoRet
                        ELSE IF r.kind = "Err"
                             THEN (IF Len(absq) < N THEN Ret("Ok", NULL) ELSE r)
                        ELSE IF r.kind = "None"
                             THEN (IF absq = << >> THEN r ELSE Ret("Some", Head(absq)))
                        ELSE @]
        /\ idx' = [idx EXCEPT ![t] = 0]
        /\ pv' = [pv EXCEPT ![t] = EmptyCell]
        /\ cv' = [cv EXCEPT ![t] = EmptyCell]

(* ------------------------------------------------------------------ push *)
\* HeapBackedQueue::push / HeaplessQueue::push, to the load of head
StartPush(t) ==
    /\ MayPush(t) /\ ~iterating
    /\ Call(t, "push", "push_prev", NextItem, head)
    /\ UNCHANGED iterating

\* prev_item.components()
PushReadPrev(t) ==
    /\ pc[t] = "push_prev"
    /\ pv' = [pv EXCEPT ![t] = buffer[prev(idx[t], N)]]
    /\ pc' = [pc EXCEPT ![t] = "push_cur"]
    /\ UNCHANGED << N, order, word, arith, installed, wrote, moved, ltail, quiet, scan, buffer, head, tail, op, idx, cv, item, popped, ret, ops,
                    mode, iterating, absq, absret, pushedSeq, poppedSeq,
                    handed, qAtCall >>

\* current_item.components(), and the rest of the search loop's body.  An
\* answer of Err is the push's last acceptance check: the sequential queue
\* answers the push here.
PushReadCur(t) ==
    /\ pc[t] = "push_cur"
    /\ LET c == buffer[idx[t]]
           verdict == PushSearch(prev(idx[t], N), pv[t], idx[t], c)
       IN  CASE verdict = "accept" ->
                  /\ cv' = [cv EXCEPT ![t] = c]
                  /\ pc' = [pc EXCEPT ![t] = "push_cas"]
                  /\ UNCHANGED << idx, pv, item, popped, ret, absret, handed,
                                  scan, moved >>
             [] verdict = "full" ->
                  /\ Return(t, Ret("Err", item[t]))
                  /\ scan' = [scan EXCEPT ![t] = 0]
                  /\ UNCHANGED moved
             [] OTHER ->
                  /\ idx' = [idx EXCEPT ![t] = (idx[t] + 1) % N]
                  /\ pc' = [pc EXCEPT ![t] = "push_prev"]
                  /\ scan' = [scan EXCEPT ![t] = @ + 1]
                  /\ moved' = [moved EXCEPT ![t] = TRUE]
                  /\ UNCHANGED << pv, cv, item, popped, ret, absret, handed >>
    /\ UNCHANGED << N, order, word, arith, installed, wrote, ltail, quiet, buffer, head, tail, op, ops, mode, iterating,
                    absq, pushedSeq, poppedSeq, qAtCall >>

\* the commit: cmpxchg(null, new_counter, item, new_counter).  On success the
\* sequential queue takes the push.
PushCAS(t) ==
    /\ pc[t] = "push_cas"
    /\ LET new_counter == NewCounter(pv[t].count, pv[t].ptr, idx[t])
       IN  IF cmpxchg(buffer[idx[t]], NULL, new_counter)
           THEN /\ buffer' = [buffer EXCEPT ![idx[t]] = Cell(new_counter, item[t])]
                /\ pc' = [pc EXCEPT ![t] = AfterPushCas(TRUE)]
                /\ installed' = [installed EXCEPT ![idx[t]] =
                                    [pushed |-> TRUE, count |-> new_counter]]
                /\ wrote' = [wrote EXCEPT ![t] = TRUE]
                /\ pushedSeq' = Append(pushedSeq, item[t])
                /\ absq' = IF Len(absq) < N THEN Append(absq, item[t]) ELSE absq
                /\ absret' = [absret EXCEPT ![t] =
                                IF Len(absq) < N THEN Ret("Ok", NULL)
                                ELSE Ret("Err", item[t])]
                /\ scan' = [u \in Procs |-> 0]
           ELSE /\ pc' = [pc EXCEPT ![t] = AfterPushCas(FALSE)]
                /\ UNCHANGED << buffer, pushedSeq, absq, absret, scan,
                                installed, wrote >>
    /\ UNCHANGED << N, order, word, arith, moved, ltail, quiet, head, tail, op, idx, pv, cv, item, popped, ret, ops,
                    mode, iterating, poppedSeq, handed, qAtCall >>

\* self.head.store((head + 1) % len, Release); return Ok(())
PushStoreHead(t) ==
    /\ pc[t] = "push_store"
    /\ head' = (idx[t] + 1) % N
    /\ Return(t, Ret("Ok", NULL))
    /\ wrote' = [wrote EXCEPT ![t] = TRUE]
    /\ UNCHANGED << N, order, word, arith, installed, moved, ltail, quiet, scan, buffer, tail, op, ops, mode, iterating, absq,
                    pushedSeq, poppedSeq, qAtCall >>

(* ------------------------------------------------------------------- pop *)
\* HeapBackedQueue::pop / HeaplessQueue::pop
StartPop(t) ==
    /\ MayPop(t) /\ ~iterating
    /\ Call(t, "pop", "pop_load", NULL, 0)
    /\ UNCHANGED iterating

\* the head of the outer loop, at the call and again after a lost CAS:
\* let mut tail = self.tail.load(Acquire)
PopLoadTail(t) ==
    /\ pc[t] = "pop_load"
    /\ idx' = [idx EXCEPT ![t] = tail]
    /\ pc' = [pc EXCEPT ![t] = "pop_prev"]
    /\ UNCHANGED << N, order, word, arith, installed, wrote, moved, ltail, quiet, scan, buffer, head, tail, op, pv, cv, item, popped, ret, ops,
                    mode, iterating, absq, absret, pushedSeq, poppedSeq,
                    handed, qAtCall >>

\* prev_item.components()
PopReadPrev(t) ==
    /\ pc[t] = "pop_prev"
    /\ pv' = [pv EXCEPT ![t] = buffer[prev(idx[t], N)]]
    /\ pc' = [pc EXCEPT ![t] = "pop_cur"]
    /\ UNCHANGED << N, order, word, arith, installed, wrote, moved, ltail, quiet, scan, buffer, head, tail, op, idx, cv, item, popped, ret, ops,
                    mode, iterating, absq, absret, pushedSeq, poppedSeq,
                    handed, qAtCall >>

\* current_item.components(), the skip loop's test, and the empty test.  An
\* answer of None is the pop's last acceptance check: the sequential queue
\* answers the pop here.
PopReadCur(t) ==
    /\ pc[t] = "pop_cur"
    /\ LET c == buffer[idx[t]]
       IN  CASE PopSkip(prev(idx[t], N), pv[t], idx[t], c) ->
                  \* tail = (tail + 1) % len; the current cell becomes the previous
                  /\ idx' = [idx EXCEPT ![t] = (idx[t] + 1) % N]
                  /\ pv' = [pv EXCEPT ![t] = c]
                  /\ scan' = [scan EXCEPT ![t] = @ + 1]
                  /\ moved' = [moved EXCEPT ![t] = TRUE]
                  /\ UNCHANGED << pc, cv, item, popped, ret, absret, handed >>
             [] ~PopSkip(prev(idx[t], N), pv[t], idx[t], c) /\ PopEmpty(pv[t], c) ->
                  /\ Return(t, Ret("None", NULL))
                  /\ scan' = [scan EXCEPT ![t] = 0]
                  /\ UNCHANGED moved
             [] OTHER ->
                  /\ cv' = [cv EXCEPT ![t] = c]
                  /\ pc' = [pc EXCEPT ![t] = "pop_cas"]
                  /\ UNCHANGED << idx, pv, item, popped, ret, absret, handed,
                                  scan, moved >>
    /\ UNCHANGED << N, order, word, arith, installed, wrote, ltail, quiet, buffer, head, tail, op, ops, mode, iterating,
                    absq, pushedSeq, poppedSeq, qAtCall >>

\* the commit: cmpxchg(current_ptr, current_count, null, next_count).  On
\* success the sequential queue takes the pop.
PopCAS(t) ==
    /\ pc[t] = "pop_cas"
    /\ IF cmpxchg(buffer[idx[t]], cv[t].ptr, cv[t].count)
       THEN /\ buffer' = [buffer EXCEPT ![idx[t]] =
                            Cell(NextCount(cv[t].count), NULL)]
            /\ pc' = [pc EXCEPT ![t] = "pop_store"]
            /\ poppedSeq' = Append(poppedSeq, cv[t].ptr)
            /\ absq' = IF absq = << >> THEN absq ELSE Tail(absq)
            /\ absret' = [absret EXCEPT ![t] =
                            IF absq = << >> THEN Ret("None", NULL)
                            ELSE Ret("Some", Head(absq))]
            /\ scan' = [u \in Procs |-> 0]
            /\ wrote' = [wrote EXCEPT ![t] = TRUE]
       ELSE /\ pc' = [pc EXCEPT ![t] = "pop_load"]
            /\ UNCHANGED << buffer, poppedSeq, absq, absret, scan, wrote >>
    /\ UNCHANGED << N, order, word, arith, installed, moved, ltail, quiet, head, tail, op, idx, pv, cv, item, popped, ret, ops,
                    mode, iterating, pushedSeq, handed, qAtCall >>

\* self.tail.store((tail + 1) % len, Release); return Some(item)
PopStoreTail(t) ==
    /\ pc[t] = "pop_store"
    /\ tail' = (idx[t] + 1) % N
    /\ Return(t, Ret("Some", cv[t].ptr))
    /\ wrote' = [wrote EXCEPT ![t] = TRUE]
    /\ UNCHANGED << N, order, word, arith, installed, moved, ltail, quiet, scan, buffer, head, op, ops, mode, iterating, absq,
                    pushedSeq, poppedSeq, qAtCall >>

(* ------------------------------------------------------------ force_push *)
\* HeapBackedQueue::force_push / HeaplessQueue::force_push, to the first
\* push's load of head
StartForcePush(t) ==
    /\ MayForce(t) /\ ~iterating
    /\ Call(t, "force_push", "push_prev", NextItem, head)
    /\ UNCHANGED iterating

\* push returned Err: container = item, the spin_loop back-off, and the call
\* of self.pop()
ForcePop(t) ==
    /\ pc[t] = "fp_spin"
    /\ pc' = [pc EXCEPT ![t] = "pop_load"]
    /\ ret' = [ret EXCEPT ![t] = NoRet]
    /\ absret' = [absret EXCEPT ![t] = NoRet]
    /\ wrote' = [wrote EXCEPT ![t] = FALSE]
    /\ moved' = [moved EXCEPT ![t] = FALSE]
    /\ UNCHANGED << N, order, word, arith, installed, ltail, quiet, scan, buffer, head, tail, op, idx, pv, cv, item, popped, ops,
                    mode, iterating, absq, pushedSeq, poppedSeq, handed,
                    qAtCall >>

\* popped_item = self.pop(): the value held before is overwritten; then the
\* loop's next self.push(container), to its load of head
ForceRetry(t) ==
    /\ pc[t] = "fp_assign"
    /\ popped' = [popped EXCEPT ![t] = ForcePopped(@, ret[t])]
    /\ idx' = [idx EXCEPT ![t] = head]
    /\ pc' = [pc EXCEPT ![t] = "push_prev"]
    /\ ret' = [ret EXCEPT ![t] = NoRet]
    /\ absret' = [absret EXCEPT ![t] = NoRet]
    /\ wrote' = [wrote EXCEPT ![t] = FALSE]
    /\ moved' = [moved EXCEPT ![t] = FALSE]
    /\ UNCHANGED << N, order, word, arith, installed, ltail, quiet, scan, buffer, head, tail, op, pv, cv, item, ops, mode,
                    iterating, absq, pushedSeq, poppedSeq, handed, qAtCall >>

(* ------------------------------------------------------------------- len *)
MayLen(t) == mode \in {"mpmc", "spsc"} \/ (mode = "seq" /\ t = 1)

\* len / is_empty / is_full, to len's self.head.load(Acquire)
StartLen(t, o) ==
    /\ MayLen(t) /\ ~iterating
    /\ Call(t, o, "len_tail", NULL, head)
    /\ UNCHANGED iterating

\* self.tail.load(Acquire), and the answer when head != tail
LenLoadTail(t) ==
    /\ pc[t] = "len_tail"
    /\ IF idx[t] # tail
       THEN /\ Return(t, Observed(op[t], len_Differ(idx[t], tail, N), N))
            /\ UNCHANGED ltail
       ELSE /\ ltail' = [ltail EXCEPT ![t] = tail]
            /\ pc' = [pc EXCEPT ![t] = "len_slot"]
            /\ UNCHANGED << idx, pv, cv, item, popped, ret, absret, handed >>
    /\ UNCHANGED << N, order, word, arith, installed, wrote, moved, quiet, scan, buffer, head, tail, op, ops, mode,
                    iterating, absq, pushedSeq, poppedSeq, qAtCall >>

\* head = tail: the read of the slot at head, and the answer 0 or capacity
LenReadSlot(t) ==
    /\ pc[t] = "len_slot"
    /\ Return(t, Observed(op[t], len_Same(buffer[idx[t]].ptr, N), N))
    /\ ltail' = [ltail EXCEPT ![t] = 0]
    /\ UNCHANGED << N, order, word, arith, installed, wrote, moved, quiet, scan, buffer, head, tail, op, ops, mode,
                    iterating, absq, pushedSeq, poppedSeq, qAtCall >>

\* capacity(): self.buffer.len(), no shared cell is read
Capacity(t) ==
    /\ MayLen(t) /\ ~iterating
    /\ pc[t] = "idle"
    /\ ops < Limit
    /\ ops' = ops + 1
    /\ op' = [op EXCEPT ![t] = "capacity"]
    /\ ret' = [ret EXCEPT ![t] = Ret("Cap", Cardinality(DOMAIN buffer))]
    /\ absret' = [absret EXCEPT ![t] = NoRet]
    /\ qAtCall' = [qAtCall EXCEPT ![t] = IF mode = "seq" THEN RingSeq ELSE << >>]
    /\ quiet' = [u \in Procs |-> FALSE]
    /\ UNCHANGED << N, order, word, arith, installed, wrote, moved, ltail, scan, buffer, head, tail, pc, idx, pv, cv, item,
                    popped, mode, iterating, absq, pushedSeq, poppedSeq,
                    handed >>

LenSteps(t) == LenLoadTail(t) \/ LenReadSlot(t)

(* ------------------------------------------------------------- into_iter *)
\* IntoIterator::into_iter: iter::from_fn(move || self.pop()); each next() is
\* one pop.  The queue is moved, so no other call is in progress or follows.
IterNext(t) ==
    /\ mode = "seq" /\ t = 1
    /\ \A u \in Procs : pc[u] = "idle"
    /\ Call(t, "iter", "pop_load", NULL, 0)
    /\ iterating' = TRUE

(* ------------------------------------------------------------------ drop *)
\* the destructor's loop has ended: its pop answered None
Dropped == iterating /\ op[1] = "drop" /\ pc[1] = "idle" /\ ret[1].kind = "None"

\* Drop for HeapBackedQueue: while self.pop().is_some() {}; each round is one
\* pop.  drop takes &mut self: every thread has returned and none calls again.
DropNext(t) ==
    /\ mode = "mpmc" /\ t = 1
    /\ \A u \in Procs : pc[u] = "idle"
    /\ ~Dropped
    /\ iterating' = TRUE
    /\ op' = [op EXCEPT ![t] = "drop"]
    /\ pc' = [pc EXCEPT ![t] = "pop_load"]
    /\ ret' = [ret EXCEPT ![t] = NoRet]
    /\ absret' = [absret EXCEPT ![t] = NoRet]
    /\ quiet' = [u \in Procs |-> FALSE]
    /\ scan' = [scan EXCEPT ![t] = 0]
    /\ wrote' = [wrote EXCEPT ![t] = FALSE]
    /\ moved' = [moved EXCEPT ![t] = FALSE]
    /\ UNCHANGED << N, order, word, arith, installed, ltail, buffer, head, tail, idx, pv, cv, item, popped,
                    ops, mode, absq, pushedSeq, poppedSeq, handed, qAtCall >>

(* ------------------------------------------------ counters at full width *)
\* The counter is a u64 (ItemInner::components).  A u64 is written as four
\* digits of 16 bits, lowest first, so that sums beyond 2^64 can be told.
Base == 2^16
Zero64 == << 0, 0, 0, 0 >>
One64 == << 1, 0, 0, 0 >>

\* TaggedItemInner::MAX_W = u16::MAX as u64 + 1
TaggedW == << 0, 1, 0, 0 >>
\* DWordItemInner::MAX_W = u64::MAX
DWordW == << Base - 1, Base - 1, Base - 1, Base - 1 >>
MaxW(enc) == IF enc = "tagged" THEN TaggedW ELSE DWordW

\* a + b on u64: the wrapped sum, and whether the sum left the u64 range
Add64(a, b) ==
    LET s1 == a[1] + b[1]
        s2 == a[2] + b[2] + (s1 \div Base)
        s3 == a[3] + b[3] + (s2 \div Base)
        s4 == a[4] + b[4] + (s3 \div Base)
    IN  [val |-> << s1 % Base, s2 % Base, s3 % Base, s4 % Base >>,
         over |-> s4 >= Base]

\* a - b on u64: the wrapped difference, and whether it fell below 0
Sub64(a, b) ==
    LET d1 == a[1] - b[1]
        d2 == a[2] - b[2] - (IF d1 < 0 THEN 1 ELSE 0)
        d3 == a[3] - b[3] - (IF d2 < 0 THEN 1 ELSE 0)
        d4 == a[4] - b[4] - (IF d3 < 0 THEN 1 ELSE 0)
    IN  [val |-> << (d1 + Base) % Base, (d2 + Base) % Base,
                    (d3 + Base) % Base, (d4 + Base) % Base >>,
         over |-> d4 < 0]

\* a < b on u64
Less64(a, b) ==
    \E k \in 1 .. 4 : a[k] < b[k] /\ \A m \in (k + 1) .. 4 : a[m] = b[m]

\* x % w on u64 for the two values MAX_W takes: 2^16 keeps the lowest digit;
\* u64::MAX maps u64::MAX to 0 and leaves every smaller value
Rem64(x, w) ==
    IF w = TaggedW THEN << x[1], 0, 0, 0 >>
    ELSE IF x = w THEN Zero64 ELSE x

\* ArrayQueue::push: (count + MAX_W - 1) % MAX_W, evaluated left to right
Decrement64(count, w) ==
    LET a == Add64(count, w)
        b == Sub64(a.val, One64)
    IN  [val |-> Rem64(b.val, w), over |-> a.over \/ b.over]

\* ArrayQueue::push: (new_counter + 1) % MAX_W, and ArrayQueue::pop:
\* (current_count + 1) % MAX_W
Increment64(count, w) ==
    LET a == Add64(count, One64)
    IN  [val |-> Rem64(a.val, w), over |-> a.over]

\* the digits near 0 and near 2^16
EdgeDigits == (0 .. (EdgeWidth - 1)) \cup ((Base - EdgeWidth) .. (Base - 1))

\* the counters a slot of the encoding enc can hold, built from edge digits
Counters(enc) ==
    IF enc = "tagged" THEN {<< d, 0, 0, 0 >> : d \in EdgeDigits}
    ELSE {x \in [1 .. 4 -> EdgeDigits] : Less64(x, DWordW)}

\* a counter x read from a slot of either encoding, in a build with or without
\* overflow checks (debug / release), no branch applied yet
InitArith ==
    /\ InitQueue("arith") /\ N = 1 /\ Unstudied
    /\ \E enc \in {"tagged", "dword"}, checks \in BOOLEAN :
          \E x \in Counters(enc) :
              arith = [enc |-> enc, branch |-> "-", x |-> x, out |-> << >>,
                       checks |-> checks, over |-> FALSE, panic |-> FALSE]

\* the branch b is applied to the counter: with overflow checks an overflow
\* panics, without them the value wraps
ArithApply(b, r) ==
    /\ mode = "arith"
    /\ arith.branch = "-"
    /\ arith' = [arith EXCEPT !.branch = b, !.out = r.val, !.over = r.over,
                              !.panic = r.over /\ arith.checks]
    /\ UNCHANGED << N, order, word, installed, wrote, moved, ltail, quiet,
                    scan, buffer,
                    head, tail, pc, op, idx, pv, cv, item, popped, ret, ops,
                    mode, iterating, absq, absret, pushedSeq, poppedSeq,
                    handed, qAtCall >>

\* push, prev_ptr.is_null(): new_counter = (count + MAX_W - 1) % MAX_W
PushDecrement == ArithApply("dec", Decrement64(arith.x, MaxW(arith.enc)))

\* push, head == 0: new_counter = (new_counter + 1) % MAX_W
PushWrap == ArithApply("wrap", Increment64(arith.x, MaxW(arith.enc)))

\* pop: next_count = (current_count + 1) % MAX_W
PopIncrement == ArithApply("inc", Increment64(arith.x, MaxW(arith.enc)))

(* --------------------------------------------------- comp at full width *)
\* w_max / 2 on u64
Half64(x) ==
    [k \in 1 .. 4 |->
        (x[k] \div 2) + (IF k < 4 THEN (x[k + 1] % 2) * (Base \div 2) ELSE 0)]

\* mutant: the half-window includes its far end
comp64_Closed(i, u, j, v, w_max) ==
    IF u = v THEN i < j
    ELSE ~Less64(Half64(w_max),
                 Rem64(Sub64(Add64(v, w_max).val, u).val, w_max))

\* utils.rs: comp, on u64 counters:
\* (v.wrapping_add(w_max).wrapping_sub(u)) % w_max < w_max / 2
comp64(i, u, j, v, w_max) ==
    IF u = v THEN i < j
    ELSE Less64(Rem64(Sub64(Add64(v, w_max).val, u).val, w_max),
                Half64(w_max))

\* the digits near 2^15
HalfDigits == ((Base \div 2) - EdgeWidth) .. ((Base \div 2) + EdgeWidth - 1)

\* counters near 0, near the middle and near the end of the counter range of
\* the encoding enc
OrderCounters(enc) ==
    IF enc = "tagged"
    THEN {<< d, 0, 0, 0 >> : d \in EdgeDigits \cup HalfDigits}
    ELSE {x \in [1 .. 4 -> EdgeDigits \cup HalfDigits] :
            /\ x[1] \in EdgeDigits
            /\ x[2] = x[3] /\ x[2] \in {0, Base - 1}
            /\ Less64(x, DWordW)}

\* two slots (i, u) and (j, v) of a ring of either encoding, not yet compared
InitComp ==
    /\ InitQueue("comp") /\ N = 1 /\ arith = NoArith /\ word = NoWord
    /\ \E enc \in {"tagged", "dword"} :
          \E i, j \in 0 .. (MaxCap - 1), u, v \in OrderCounters(enc) :
              order = [enc |-> enc, i |-> i, u |-> u, j |-> j, v |-> v,
                       did |-> {}, fwd |-> FALSE, bwd |-> FALSE]

\* comp(i, u, j, v, MAX_W) is evaluated
CompForward ==
    /\ mode = "comp"
    /\ "fwd" \notin order.did
    /\ order' = [order EXCEPT
                    !.did = @ \cup {"fwd"},
                    !.fwd = comp64(order.i, order.u, order.j, order.v,
                                   MaxW(order.enc))]
    /\ UNCHANGED << N, word, arith, installed, wrote, moved, ltail, quiet,
                    scan, buffer, head, tail, pc, op, idx, pv, cv, item,
                    popped, ret, ops, mode, iterating, absq, absret,
                    pushedSeq, poppedSeq, handed, qAtCall >>

\* comp(j, v, i, u, MAX_W) is evaluated
CompBackward ==
    /\ mode = "comp"
    /\ "bwd" \notin order.did
    /\ order' = [order EXCEPT
                    !.did = @ \cup {"bwd"},
                    !.bwd = comp64(order.j, order.v, order.i, order.u,
                                   MaxW(order.enc))]
    /\ UNCHANGED << N, word, arith, installed, wrote, moved, ltail, quiet,
                    scan, buffer, head, tail, pc, op, idx, pv, cv, item,
                    popped, ret, ops, mode, iterating, absq, absret,
                    pushedSeq, poppedSeq, handed, qAtCall >>

(* ----------------------------------------------------- tagged pointers *)
\* a | b on 16 bits
RECURSIVE OrDigit(_, _)
OrDigit(a, b) ==
    IF a = 0 THEN b
    ELSE IF b = 0 THEN a
    ELSE (IF a % 2 = 1 \/ b % 2 = 1 THEN 1 ELSE 0)
             + 2 * OrDigit(a \div 2, b \div 2)

\* a | b on u64
Or64(a, b) == [k \in 1 .. 4 |-> OrDigit(a[k], b[k])]
\* x & ((1u64 << 48) - 1)
Mask48(x) == << x[1], x[2], x[3], 0 >>
\* x << 48 on u64: the bits above the lowest 16 leave the word
Shl48(x) == << 0, 0, 0, x[1] >>
\* x >> 48 on u64
Shr48(x) == << x[4], 0, 0, 0 >>

\* mutant: the pointer is not sign-extended
sign_extend_None(ptr) == ptr

\* utils.rs: sign_extend: bit 47 is copied into the bits 48..63
sign_extend(ptr) ==
    IF ptr[3] >= Base \div 2 THEN Or64(ptr, << 0, 0, 0, Base - 1 >>) ELSE ptr

\* utils.rs: components_as_tagged, the word it returns
components_as_tagged(count, ptr) == Or64(Shl48(count), Mask48(ptr))

\* utils.rs: components_from_tagged
components_from_tagged(ptr) ==
    [count |-> Shr48(ptr), ptr |-> sign_extend(Mask48(ptr))]

\* the counts given to components_as_tagged: below 2^16 and just above
TagCounts == {<< d, e, 0, 0 >> : d \in EdgeDigits \cup HalfDigits, e \in {0, 1}}

\* pointers of 64 bits, canonical or not, around the edges of the two halves
\* of the 48-bit address range
TagPointers ==
    {<< a, b, c, d >> : a \in EdgeDigits, b \in {0, Base - 1},
                        c \in EdgeDigits \cup HalfDigits, d \in EdgeDigits}

\* a count and a pointer, not yet packed
InitTagged ==
    /\ InitQueue("tagged") /\ N = 1 /\ arith = NoArith /\ order = NoOrder
    /\ \E c \in TagCounts, p \in TagPointers :
          word = [NoWord EXCEPT !.count = c, !.ptr = p]

\* components_as_tagged(count, ptr): the debug_assert is evaluated (asserted:
\* it holds), the word is built
Tag ==
    /\ mode = "tagged"
    /\ word.did = {}
    /\ word' = [word EXCEPT
                   !.did = {"tag"},
                   !.asserted = Less64(word.count, TaggedW),
                   !.tagged = components_as_tagged(word.count, word.ptr)]
    /\ UNCHANGED << N, order, arith, installed, wrote, moved, ltail, quiet,
                    scan, buffer, head, tail, pc, op, idx, pv, cv, item,
                    popped, ret, ops, mode, iterating, absq, absret,
                    pushedSeq, poppedSeq, handed, qAtCall >>

\* components_from_tagged of the word built
Untag ==
    /\ mode = "tagged"
    /\ word.did = {"tag"}
    /\ word' = [word EXCEPT
                   !.did = {"tag", "untag"},
                   !.back = components_from_tagged(word.tagged)]
    /\ UNCHANGED << N, order, arith, installed, wrote, moved, ltail, quiet,
                    scan, buffer, head, tail, pc, op, idx, pv, cv, item,
                    popped, ret, ops, mode, iterating, absq, absret,
                    pushedSeq, poppedSeq, handed, qAtCall >>

(* ----------------------------------------------------------------- hints *)
\* head and tail are hints: between two calls of the one thread they take any
\* values h, tl in [0, N), whatever late stores of other calls (head.store,
\* tail.store) may have left there; the slots are not touched
Stale(h, tl) ==
    /\ mode = "hint"
    /\ \A u \in Procs : pc[u] = "idle"
    /\ head' = h
    /\ tail' = tl
    /\ UNCHANGED << N, order, word, arith, installed, wrote, moved, ltail, quiet, scan,
                    buffer, pc, op, idx, pv, cv, item, popped, ret, ops, mode,
                    iterating, absq, absret, pushedSeq, poppedSeq, handed,
                    qAtCall >>

(* ------------------------------------------------------------------ Next *)
PushSteps(t) ==
    PushReadPrev(t) \/ PushReadCur(t) \/ PushCAS(t) \/ PushStoreHead(t)

PopSteps(t) ==
    PopLoadTail(t) \/ PopReadPrev(t) \/ PopReadCur(t) \/ PopCAS(t)
        \/ PopStoreTail(t)

ForceSteps(t) == ForcePop(t) \/ ForceRetry(t)

\* any number of threads calling push, pop and force_push
Next ==
    \E t \in Procs :
        StartPush(t) \/ StartPop(t) \/ StartForcePush(t)
            \/ PushSteps(t) \/ PopSteps(t) \/ ForceSteps(t)

\* threads calling push and pop only: any number of producers and consumers
\* ("mpmc"), or one producer (thread 1) and one consumer (thread 2) ("spsc")
NextPushPop ==
    \E t \in Procs : StartPush(t) \/ StartPop(t) \/ PushSteps(t) \/ PopSteps(t)

\* one thread, every public call, then the draining iterator
NextSeq ==
    \E t \in Procs :
        StartPush(t) \/ StartPop(t) \/ StartForcePush(t) \/ IterNext(t)
            \/ PushSteps(t) \/ PopSteps(t) \/ ForceSteps(t)

\* threads calling push, pop and len ("mpmc"), or one producer and one
\* consumer that also call len ("spsc")
NextLen ==
    \E t \in Procs :
        StartPush(t) \/ StartPop(t) \/ StartLen(t, "len")
            \/ PushSteps(t) \/ PopSteps(t) \/ LenSteps(t)

\* one thread calling push, pop and the observers
NextSeqLen ==
    \E t \in Procs :
        StartPush(t) \/ StartPop(t) \/ Capacity(t)
            \/ (\E o \in LenOps : StartLen(t, o))
            \/ PushSteps(t) \/ PopSteps(t) \/ LenSteps(t)

\* one thread calling push and pop, each call finding the hints anywhere
NextHint ==
    \/ \E t \in Procs : StartPush(t) \/ StartPop(t) \/ PushSteps(t) \/ PopSteps(t)
    \/ \E h, tl \in 0 .. (N - 1) : Stale(h, tl)

\* one of the three counter computations, on the counter read
NextArith == PushDecrement \/ PushWrap \/ PopIncrement

\* one of the two comparisons of the pair of slots
NextComp == CompForward \/ CompBackward

\* a count and a pointer are packed into a word, the word is unpacked
NextTagged == Tag \/ Untag

\* threads calling push and pop; when all have returned the queue is dropped
NextDrop ==
    \E t \in Procs :
        StartPush(t) \/ StartPop(t) \/ DropNext(t)
            \/ PushSteps(t) \/ PopSteps(t)

\* the destructor, once begun, runs on: its thread is scheduled
Drain == \E t \in Procs : DropNext(t) \/ (iterating /\ PopSteps(t))

Spec == Init /\ [][Next]_vars
SpecDrop == Init /\ [][NextDrop]_vars /\ WF_vars(Drain)
SpecLen == Init /\ [][NextLen]_vars
SpecSPSCLen == InitSPSC /\ [][NextLen]_vars
SpecSeqLen == InitSeq /\ [][NextSeqLen]_vars
SpecAnyLen == InitAnyLen /\ [][NextLen]_vars
SpecPushPop == Init /\ [][NextPushPop]_vars
SpecSPSC == InitSPSC /\ [][NextPushPop]_vars
SpecSeq == InitSeq /\ [][NextSeq]_vars
SpecABA == InitABA /\ [][NextPushPop]_vars
SpecHint == InitHint /\ [][NextHint]_vars
SpecArith == InitArith /\ [][NextArith]_vars
SpecComp == InitComp /\ [][NextComp]_vars
SpecTagged == InitTagged /\ [][NextTagged]_vars

\* the steps of thread t inside a call of push or pop
ThreadStep(t) == PushSteps(t) \/ PopSteps(t)

\* threads calling push and pop, every thread scheduled weakly fairly while it
\* is inside a call (a thread need not begin another call)
SpecFair == SpecPushPop /\ \A t \in Procs : WF_vars(ThreadStep(t))

(* ---------------------------------------------------------------- claims *)
\* a call of ArrayQueue::push / pop has returned to its caller
Returned(t) == pc[t] \in {"idle", "fp_spin", "fp_assign"} /\ absret[t] # NoRet
Busy(t) == pc[t] # "idle"

\* C1: every history of push and pop calls is linearizable to the sequential
\* bounded FIFO queue absq, which takes a successful push or pop at its slot
\* CAS (and a push answering Err, a pop answering None, at its last slot
\* read): each call's answer is the sequential queue's answer, and the ring
\* holds exactly the sequential queue's items.
C1_Linearizable ==
    /\ \A t \in Procs :
        /\ pc[t] = "push_store" => absret[t] = Ret("Ok", NULL)
        /\ pc[t] = "pop_store" => absret[t] = Ret("Some", cv[t].ptr)
        /\ Returned(t) => ret[t] = absret[t]
    /\ RingSeq = absq

C1_Witness ==
    \E t, u \in Procs :
        /\ t # u /\ N = 2
        /\ pc[t] = "pop_store" /\ Busy(u) /\ op[u] = "push"
        /\ Len(pushedSeq) > N

\* C2: every item a pop returns was pushed before, no pushed item is popped
\* twice, and once all threads are done with as many pops as pushes every
\* pushed item was handed out exactly once.
C2_NoDupNoFabrication ==
    /\ Range(poppedSeq) \subseteq Range(pushedSeq)
    /\ Cardinality(Range(poppedSeq)) = Len(poppedSeq)
    /\ \A t \in Procs : ret[t].kind = "Some" => ret[t].val \in Range(pushedSeq)
    /\ \A x \in ItemIds : handed[x] <= 1
    /\ ((\A t \in Procs : pc[t] = "idle") /\ Len(poppedSeq) = Len(pushedSeq))
          => \A x \in Range(pushedSeq) : handed[x] = 1

C2_Witness ==
    /\ \A t \in Procs : pc[t] = "idle"
    /\ Len(pushedSeq) = 2 /\ Len(poppedSeq) = 2
    /\ \E t, u \in Procs : t # u /\ op[t] = "pop" /\ op[u] = "pop"
                            /\ ret[t].kind = "Some" /\ ret[u].kind = "Some"

\* C3: with one producer and one consumer the sequence of items popped is
\* the sequence of items pushed, in the same order.
C3_SpscFifo ==
    /\ IsPrefix(poppedSeq, pushedSeq)
    /\ ret[2].kind = "Some" => ret[2].val = pushedSeq[Len(poppedSeq)]

C3_Witness ==
    /\ mode = "spsc" /\ N = 2
    /\ Len(poppedSeq) >= 3
    /\ Busy(1) /\ ret[2].kind = "Some"

\* C4: a push answers Err only at a slot read at which the ring holds N items.
C4_ErrOnlyWhenFull ==
    [][\A t \in Procs :
          (pc[t] = "push_cur" /\ ret'[t].kind = "Err") => Stored = N]_vars

C4_Witness ==
    \E t, u \in Procs :
        t # u /\ op[t] = "push" /\ ret[t].kind = "Err" /\ Busy(u) /\ N = 2

\* C5: a pop answers None only at a slot read at which the ring is empty.
C5_NoneOnlyWhenEmpty ==
    [][\A t \in Procs :
          (pc[t] = "pop_cur" /\ ret'[t].kind = "None") => Stored = 0]_vars

C5_Witness ==
    \E t, u \in Procs :
        /\ t # u /\ op[t] = "pop" /\ ret[t].kind = "None" /\ N = 2
        /\ op[u] = "force_push" /\ Busy(u) /\ Len(pushedSeq) >= 1

\* C10: with force_push and pop running concurrently, no item is handed out
\* twice, counting the values returned by pop and by force_push.
C10_HandedOnce == \A x \in ItemIds : handed[x] <= 1

C10_Witness ==
    \E t, u \in Procs :
        /\ t # u /\ op[t] = "force_push" /\ op[u] = "pop"
        /\ pc[t] = "idle" /\ pc[u] = "idle"
        /\ ret[t].kind = "Some" /\ ret[u].kind = "Some"

\* thread t holds item x: it took x out of the ring and has not returned it
Holds(t, x) ==
    \/ pc[t] = "pop_store" /\ cv[t].ptr = x
    \/ pc[t] = "fp_assign" /\ ret[t].val = x
    \/ popped[t] = x

\* C6: no pushed item disappears: it is stored in the ring, or was returned by
\* a pop or a force_push call, or is held by a call that is about to return it.
C6_NoItemLost ==
    \A x \in Range(pushedSeq) :
        x \in StoredItems \/ handed[x] >= 1 \/ \E t \in Procs : Holds(t, x)

\* C7: single-threaded, push answers Ok exactly when fewer than N items are
\* stored and Err, with the item passed in, exactly when N are; pop answers
\* Some exactly when an item is stored and None exactly when none is.
C7_SeqAnswers ==
    (mode = "seq" /\ pc[1] = "idle") =>
        /\ op[1] = "push" =>
            /\ ret[1].kind = "Ok" <=> Len(qAtCall[1]) < N
            /\ ret[1].kind = "Err" <=> Len(qAtCall[1]) = N
            /\ ret[1].kind = "Err" => ret[1].val = ops
            /\ Stored = IF ret[1].kind = "Ok" THEN Len(qAtCall[1]) + 1 ELSE N
        /\ op[1] \in {"pop", "iter"} =>
            /\ ret[1].kind = "Some" <=> Len(qAtCall[1]) >= 1
            /\ ret[1].kind = "None" <=> Len(qAtCall[1]) = 0

C7_Witness ==
    /\ mode = "seq" /\ pc[1] = "idle" /\ op[1] = "push" /\ N = 2
    /\ ret[1].kind = "Err" /\ Len(poppedSeq) >= 3

\* C8: single-threaded, pops return the items in push order, after any number
\* of laps and for every capacity, and a pop answers None only when every
\* pushed item was popped; the draining iterator's next() does the same.
C8_SeqRoundTrip ==
    mode = "seq" =>
        /\ IsPrefix(poppedSeq, pushedSeq)
        /\ (pc[1] = "idle" /\ op[1] \in {"pop", "iter"}) =>
            /\ ret[1].kind = "Some" =>
                  /\ qAtCall[1] # << >>
                  /\ ret[1].val = Head(qAtCall[1])
                  /\ RingSeq = Tail(qAtCall[1])
            /\ ret[1].kind = "None" => poppedSeq = pushedSeq /\ RingSeq = << >>

C8_Witness ==
    /\ mode = "seq" /\ pc[1] = "idle" /\ op[1] = "iter" /\ iterating
    /\ ret[1].kind = "None" /\ Len(poppedSeq) > N

\* C9: single-threaded, force_push on a queue with room returns None and
\* appends the item; on a full queue it returns the oldest item and leaves the
\* other N-1 items in their order, followed by the new item.
C9_SeqForcePush ==
    (mode = "seq" /\ pc[1] = "idle" /\ op[1] = "force_push") =>
        IF Len(qAtCall[1]) < N
        THEN ret[1] = Ret("None", NULL) /\ RingSeq = Append(qAtCall[1], ops)
        ELSE /\ ret[1] = Ret("Some", Head(qAtCall[1]))
             /\ RingSeq = Append(Tail(qAtCall[1]), ops)

C9_Witness ==
    /\ mode = "seq" /\ pc[1] = "idle" /\ op[1] = "force_push" /\ N = 2
    /\ ret[1].kind = "Some" /\ Len(pushedSeq) >= 4

\* push's commit CAS succeeds when the two cells it read are still as read
PushCasUndisturbed(t) ==
    (pc[t] = "push_cas" /\ buffer[idx[t]] = cv[t]
                        /\ buffer[prev(idx[t], N)] = pv[t])
        => cmpxchg(buffer[idx[t]], NULL,
                   NewCounter(pv[t].count, pv[t].ptr, idx[t]))

\* pop's commit CAS succeeds when the cell it read is still as read
PopCasUndisturbed(t) ==
    (pc[t] = "pop_cas" /\ buffer[idx[t]] = cv[t])
        => cmpxchg(buffer[idx[t]], cv[t].ptr, cv[t].count)

\* C11: push and pop are lock-free.  A commit CAS fails only when a cell the
\* call read was changed (by another call's successful CAS), a call moves past
\* at most N slots between two successful CASes on the ring, and with finitely
\* many calls and every thread scheduled weakly fairly every call returns.
C11_LockFree ==
    /\ [](\A t \in Procs : PushCasUndisturbed(t) /\ PopCasUndisturbed(t)
                                /\ scan[t] <= N)
    /\ \A t \in Procs : Busy(t) ~> ~Busy(t)

C11_Witness ==
    \E t, u \in Procs :
        /\ t # u /\ N = 2
        /\ pc[t] = "pop_load" /\ cv[t].ptr # NULL
        /\ pc[u] = "idle" /\ ret[u].kind = "Some"

\* C12: every value len() returns is in [0, N], whatever push and pop calls
\* run between its reads of head, tail and the slot.
C12_LenInRange ==
    \A t \in Procs : ret[t].kind = "Len" => ret[t].val \in 0 .. N

C12_Witness ==
    \E t, u \in Procs :
        /\ t # u /\ N = 2
        /\ pc[t] = "idle" /\ op[t] = "len" /\ ret[t].kind = "Len"
        /\ Busy(u) /\ ret[t].val # Stored

\* C13: single-threaded, after any pushes and pops, len() is the number of
\* items stored, is_empty() holds exactly when it is 0, is_full() exactly when
\* it is N, and capacity() is the N given at construction.
C13_SeqObservers ==
    (mode = "seq" /\ pc[1] = "idle") =>
        /\ op[1] = "len" => ret[1] = Ret("Len", Stored)
        /\ op[1] = "is_empty" =>
              ret[1].kind = IF Stored = 0 THEN "true" ELSE "false"
        /\ op[1] = "is_full" =>
              ret[1].kind = IF Stored = N THEN "true" ELSE "false"
        /\ op[1] = "capacity" => ret[1] = Ret("Cap", N)

C13_Witness ==
    /\ mode = "seq" /\ pc[1] = "idle" /\ N = 2
    /\ op[1] = "len" /\ ret[1] = Ret("Len", 1)
    /\ Len(poppedSeq) >= 3 /\ head < tail

\* C14: one producer, one consumer: a len() that runs while no other call is
\* in progress returns the number of items stored (0 once all are popped).
C14_SpscQuietLen ==
    \A t \in Procs :
        (quiet[t] /\ op[t] = "len" /\ \A u \in Procs : pc[u] = "idle")
            => ret[t] = Ret("Len", Stored)

C14_Witness ==
    /\ mode = "spsc" /\ N = 2
    /\ \A u \in Procs : pc[u] = "idle"
    /\ quiet[1] /\ op[1] = "len" /\ ret[1] = Ret("Len", 0)
    /\ Len(poppedSeq) >= 3

\* C15: the destructor's drain loop ends, with no slot holding an item, and
\* every item accepted by a push was then released exactly once, by the pop
\* that returned it or by the destructor; no item is ever released twice.
C15_DropReleasesAll ==
    /\ [](\A x \in ItemIds : handed[x] <= 1)
    /\ [](Dropped => /\ Stored = 0
                      /\ \A x \in Range(pushedSeq) : handed[x] = 1)
    /\ (iterating ~> Dropped)

C15_Witness ==
    /\ Dropped /\ N = 2
    /\ Len(pushedSeq) >= 3
    /\ \E u \in Procs : op[u] = "pop" /\ ret[u].kind = "Some"

\* C16: capacity 1, the same pointer pushed again and again: the cell's counter
\* is the number of pops so far (the lap), no pop takes an item that an earlier
\* pop took, no push succeeds on an occupied cell, and every answer is the one
\* of a sequential queue of capacity 1.
C16_NoABA ==
    mode = "aba" =>
        /\ Len(poppedSeq) <= Len(pushedSeq)
        /\ Stored = Len(pushedSeq) - Len(poppedSeq)
        /\ buffer[0].count = Len(poppedSeq) % MAX_W
        /\ absq = IF buffer[0].ptr = NULL THEN << >> ELSE << buffer[0].ptr >>
        /\ \A t \in Procs :
            /\ pc[t] = "push_store" => absret[t] = Ret("Ok", NULL)
            /\ pc[t] = "pop_store" => absret[t] = Ret("Some", cv[t].ptr)
            /\ Returned(t) => ret[t] = absret[t]

C16_Witness ==
    \E t, u \in Procs :
        /\ t # u /\ mode = "aba"
        /\ pc[t] = "pop_load" /\ cv[t].ptr # NULL
        /\ buffer[0].ptr = cv[t].ptr /\ buffer[0].count # cv[t].count

\* the cells holding an item
Occupied == {i \in DOMAIN buffer : buffer[i].ptr # NULL}

C18_EmptyBranchMeansEmpty ==
    [][\A t \in Procs :
          (pc[t] = "push_cas" /\ pc'[t] = "push_store" /\ pv[t].ptr = NULL)
              => Stored = 0]_vars

C18_Witness ==
    \E t, u \in Procs :
        /\ t # u /\ N >= 2
        /\ pc[t] = "push_store" /\ pv[t].ptr = NULL /\ idx[t] # 0
        /\ \E i, j \in DOMAIN buffer : buffer[i].count # buffer[j].count
        /\ Busy(u) /\ Len(pushedSeq) >= 2

\* C19: pop never tries its CAS on a slot whose pointer it read as null: when
\* the skip loop ends on an empty slot the predecessor was read empty too and
\* pop answers None; no Some carries the null pointer.
C19_PopNeverNull ==
    \A t \in Procs :
        /\ pc[t] = "pop_cas" => cv[t].ptr # NULL
        /\ pc[t] = "pop_store" => cv[t].ptr # NULL
        /\ ret[t].kind = "Some" => ret[t].val # NULL

C19_Witness ==
    \E t, u \in Procs :
        /\ t # u /\ N >= 2
        /\ pc[t] = "idle" /\ op[t] = "pop" /\ ret[t].kind = "None"
        /\ pc[u] = "pop_cas" /\ Len(poppedSeq) >= 1

\* C20: an occupied slot changes only by a pop's CAS, which leaves it empty:
\* no push, and no force_push, replaces a stored pointer.
C20_NoOverwrite ==
    [][\A i \in DOMAIN buffer :
          (buffer[i].ptr # NULL /\ buffer'[i] # buffer[i])
              => /\ buffer'[i].ptr = NULL
                 /\ \E t \in Procs : pc[t] = "pop_cas" /\ pc'[t] = "pop_store"
                                        /\ idx[t] = i]_vars

C20_Witness ==
    \E t, u \in Procs :
        /\ t # u /\ N = 2 /\ Stored = N
        /\ op[t] = "force_push" /\ pc[t] = "idle" /\ ret[t].kind = "Some"
        /\ op[u] = "push" /\ pc[u] = "push_cas"

C22_EveryWriteIncrements ==
    [][\A i \in DOMAIN buffer :
          buffer'[i] # buffer[i]
              => buffer'[i].count = (buffer[i].count + 1) % MAX_W]_vars

\* C22, amended: a successful pop CAS leaves the slot's counter one higher
\* (modulo W) than before; a successful push CAS leaves the counter as it was,
\* so a slot's counter counts the pops on the slot.
C22_PopIncrements ==
    [][\A t \in Procs :
          /\ (pc[t] = "pop_cas" /\ pc'[t] = "pop_store")
                => /\ buffer'[idx[t]].count = (buffer[idx[t]].count + 1) % MAX_W
                   /\ buffer'[idx[t]].ptr = NULL
          /\ (pc[t] = "push_cas" /\ pc'[t] = "push_store")
                => /\ buffer'[idx[t]].count = buffer[idx[t]].count
                   /\ buffer'[idx[t]].ptr = item[t]]_vars

C22_Witness ==
    \E t \in Procs :
        /\ N = 1 /\ pc[t] = "pop_store"
        /\ buffer[0] = Cell(2, NULL) /\ Len(pushedSeq) = 2

\* no call is in progress
Quiescent == \A t \in Procs : pc[t] = "idle"

\* the counters a and b are equal or one apart, modulo W
Near(a, b) == ((a + MAX_W - b) % MAX_W) \in {0, 1, MAX_W - 1}

\* the counter a is not ahead of the counter b, modulo W
LeqMod(a, b) == ((b + MAX_W - a) % MAX_W) < (MAX_W \div 2)

\* C23 as stated: at rest the counters of a slot i and of its cyclic successor
\* j are at most one apart, and where both hold an item j's counter is less
\* than or equal to i's, the pair (N-1, 0) included.
C23_NeighbourCounters ==
    Quiescent =>
        \A i \in DOMAIN buffer :
            LET j == (i + 1) % N
            IN  /\ Near(buffer[i].count, buffer[j].count)
                /\ (i \in Occupied /\ j \in Occupied)
                      => LeqMod(buffer[j].count, buffer[i].count)

\* C23, amended: at rest the counters of a slot i and of its cyclic successor
\* j are at most one apart; for j = i + 1 < N the counter of j is less than or
\* equal to the counter of i; for the pair (N-1, 0) the counter of slot 0 is
\* the counter of slot N-1 when the number of pops is a multiple of N and one
\* more otherwise, as whenever the populated segment runs across index 0.
C23_NeighbourCountersWrap ==
    Quiescent =>
        \A i \in DOMAIN buffer :
            LET j == (i + 1) % N
                lap == IF Len(poppedSeq) % N = 0 THEN 0 ELSE 1
            IN  /\ Near(buffer[i].count, buffer[j].count)
                /\ j # 0 => LeqMod(buffer[j].count, buffer[i].count)
                /\ j = 0 => buffer[0].count = (buffer[i].count + lap) % MAX_W

C23_Witness ==
    /\ Quiescent /\ N = 2 /\ Occupied = {0, 1}
    /\ buffer[0].count = 1 /\ buffer[1].count = 0

\* C24 as stated: a force_push on a full ring, run alone, displaces the item
\* in place: the ring holds N items in every state of the call.
C24_InPlaceDisplacement ==
    (mode = "seq" /\ op[1] = "force_push" /\ Len(qAtCall[1]) = N) => Stored = N

\* C24, amended: a force_push on a full ring, run alone, changes the ring by
\* two CASes: the CAS of its pop empties the slot of the oldest item, leaving
\* N-1 items stored, and the CAS of its retried push writes the new item into
\* that empty slot; no CAS replaces one pointer by another.  It returns the
\* item its pop took out.
C24_PopThenPush ==
    /\ [][(op[1] = "force_push" /\ Len(qAtCall[1]) = N /\ buffer' # buffer) =>
            \/ /\ pc[1] = "pop_cas" /\ Stored = N /\ Stored' = N - 1
               /\ buffer[idx[1]].ptr = Head(qAtCall[1])
               /\ buffer'[idx[1]].ptr = NULL
            \/ /\ pc[1] = "push_cas" /\ Stored = N - 1 /\ Stored' = N
               /\ buffer[idx[1]].ptr = NULL
               /\ buffer'[idx[1]].ptr = item[1]
               /\ popped[1] = Head(qAtCall[1])]_vars
    /\ []((mode = "seq" /\ op[1] = "force_push" /\ pc[1] = "idle"
              /\ Len(qAtCall[1]) = N)
            => /\ ret[1] = Ret("Some", Head(qAtCall[1]))
               /\ Stored = N
               /\ Head(qAtCall[1]) \notin StoredItems)

C24_Witness ==
    /\ mode = "seq" /\ N = 3 /\ op[1] = "force_push"
    /\ Len(qAtCall[1]) = N /\ pc[1] = "push_cas"
    /\ Stored = N - 1 /\ popped[1] = Head(qAtCall[1])

\* the hints are the number of pushes and of pops modulo N, and len(),
\* is_empty() and is_full(), called now, tell the number of stored items
ExactAtRest ==
    /\ head = Len(pushedSeq) % N
    /\ tail = Len(poppedSeq) % N
    /\ \A o \in LenOps :
          Observed(o, len_Alone(head, tail, buffer, N), N) = Observed(o, Stored, N)

\* C25 as stated: for any number of producers and consumers, whenever no call
\* is in progress the head hint is the number of successful pushes modulo N,
\* the tail hint the number of successful pops modulo N, and len(), is_empty()
\* and is_full() are exact.
C25_HintsExactAtRest == Quiescent => ExactAtRest

\* C25, amended: with one producer and one consumer, whenever no call is in
\* progress the hints are the numbers of pushes and pops modulo N and len(),
\* is_empty() and is_full() are exact, as is every len() that ran alone.
C25_SpscHintsExactAtRest ==
    (mode = "spsc" /\ Quiescent) =>
        /\ ExactAtRest
        /\ \A t \in Procs :
              (quiet[t] /\ op[t] = "len") => ret[t] = Ret("Len", Stored)

C25_Witness ==
    /\ mode = "spsc" /\ Quiescent /\ N = 3
    /\ Len(poppedSeq) = 2 /\ Len(pushedSeq) = 4
    /\ quiet[2] /\ op[2] = "len"

\* the slot the oldest item is in, told from the slots alone: the one slot that
\* does not come after its predecessor (utils.rs: comp)
TrueTail ==
    CHOOSE i \in DOMAIN buffer :
        ~comp(prev(i, N), buffer[prev(i, N)].count, i, buffer[i].count, MAX_W)

\* the slot the next item goes to, told from the slots alone
TrueHead == (TrueTail + Stored) % N

\* C26: a push or a pop run alone does to the slots, and answers, what the
\* slots alone determine, whatever values in [0, N) the hints have: a push
\* writes its item into the slot after the stored items and answers Ok, or
\* answers Err on a full ring; a pop empties the slot of the oldest item and
\* answers it, or answers None on an empty ring.
C26_HintsCarryNoCorrectness ==
    /\ [][buffer' # buffer =>
            IF pc[1] = "push_cas"
            THEN buffer' = [buffer EXCEPT ![TrueHead] = Cell(@.count, item[1])]
            ELSE /\ buffer[TrueTail].ptr = Head(qAtCall[1])
                 /\ buffer' = [buffer EXCEPT ![TrueTail] =
                                  Cell((@.count + 1) % MAX_W, NULL)]]_vars
    /\ []((mode = "hint" /\ pc[1] = "idle") =>
            /\ RingSeq = CASE ret[1].kind = "Ok" -> Append(qAtCall[1], ops)
                           [] ret[1].kind = "Some" -> Tail(qAtCall[1])
                           [] OTHER -> qAtCall[1]
            /\ op[1] = "push" =>
                  ret[1] = IF Len(qAtCall[1]) < N THEN Ret("Ok", NULL)
                           ELSE Ret("Err", ops)
            /\ op[1] = "pop" =>
                  ret[1] = IF qAtCall[1] = << >> THEN Ret("None", NULL)
                           ELSE Ret("Some", Head(qAtCall[1])))

C26_Witness ==
    /\ mode = "hint" /\ N = 3 /\ pc[1] = "idle"
    /\ op[1] = "pop" /\ ret[1].kind = "Some" /\ moved[1]
    /\ Len(poppedSeq) >= 2 /\ Stored = 2

\* C27: the hints and every index used on the buffer are in [0, N): the local
\* head of push, the local tail of pop, their predecessor index, and the head
\* and tail read by len; so no .get() answers None and len does not panic.
C27_IndicesInRange ==
    /\ head \in 0 .. (N - 1)
    /\ tail \in 0 .. (N - 1)
    /\ \A t \in Procs :
          /\ idx[t] \in 0 .. (N - 1)
          /\ ltail[t] \in 0 .. (N - 1)
          /\ pc[t] \in {"push_prev", "push_cur", "pop_prev", "pop_cur"}
                => prev(idx[t], N) \in 0 .. (N - 1)
          /\ pc[t] \in {"push_cur", "push_cas", "pop_cur", "pop_cas", "len_slot"}
                => idx[t] \in DOMAIN buffer

C27_Witness ==
    \E t, u \in Procs :
        /\ t # u /\ N >= 2
        /\ pc[t] = "push_prev" /\ idx[t] = 0 /\ moved[t]
        /\ pc[u] = "len_slot"

\* C28: a push that answers Err and a pop that answers None have changed no
\* slot and no hint: every change of a slot or a hint is made by the CAS or
\* the hint store of some call, and a call that made one answers Ok or Some;
\* also when the call moved its local index past a stale hint.
C28_FailureWritesNothing ==
    /\ [][(buffer' # buffer \/ head' # head \/ tail' # tail) =>
            \E t \in Procs :
                /\ pc[t] \in {"push_cas", "push_store", "pop_cas", "pop_store"}
                /\ pc'[t] # pc[t]
                /\ wrote'[t]]_vars
    /\ [](\A t \in Procs :
            (pc[t] = "idle" /\ ret[t].kind \in {"Err", "None"}) => ~wrote[t])

C28_Witness ==
    \E t, u \in Procs :
        /\ t # u /\ N = 2
        /\ pc[t] = "idle" /\ op[t] = "push" /\ ret[t].kind = "Err"
        /\ moved[t] /\ ~wrote[t]
        /\ op[u] = "push" /\ pc[u] = "idle" /\ head # Len(pushedSeq) % N

\* C29: a push or a pop run alone, from any hints in [0, N), moves its local
\* index at most N-1 times, and when it tries its CAS the CAS succeeds, so it
\* tries at most once before it returns.
C29_SoloBounded ==
    /\ [](mode = "hint" => scan[1] <= N - 1)
    /\ [][/\ pc[1] = "push_cas" => pc'[1] = "push_store"
          /\ pc[1] = "pop_cas" => pc'[1] = "pop_store"
          /\ pc[1] \in {"push_store", "pop_store"} => pc'[1] = "idle"]_vars

C29_Witness ==
    /\ mode = "hint" /\ N = 3
    /\ pc[1] = "push_cas" /\ scan[1] = N - 1
    /\ Stored = 2 /\ Len(poppedSeq) >= 1

\* (x + W - 1) mod W, for x in [0, W)
DecMod(x, w) == IF x = Zero64 THEN Sub64(w, One64).val ELSE Sub64(x, One64).val

\* (x + 1) mod W, for x in [0, W)
IncMod(x, w) == IF x = Sub64(w, One64).val THEN Zero64 ELSE Add64(x, One64).val

\* C30: for every counter x in [0, W), in the tagged encoding (W = 2^16) and
\* in the double-word encoding, push's decrement branch yields (x + W - 1)
\* mod W, push's wrap branch and pop's increment yield (x + 1) mod W, the
\* result is in [0, W) (so count <= u16::MAX when tagged), and no intermediate
\* value leaves the u64 range.
C30_CounterArithmetic ==
    arith.branch # "-" =>
        LET w == MaxW(arith.enc)
        IN  /\ ~arith.over
            /\ ~arith.panic
            /\ Less64(arith.out, w)
            /\ arith.out = IF arith.branch = "dec" THEN DecMod(arith.x, w)
                           ELSE IncMod(arith.x, w)

\* (v - u) mod W, for u, v in [0, W)
SubMod(v, u, w) ==
    IF Less64(v, u) THEN Sub64(w, Sub64(u, v).val).val ELSE Sub64(v, u).val

\* the ordering of the slots (i, u) and (j, v): the index decides on equal
\* counters, otherwise (v - u) mod W < W / 2
Before(i, u, j, v, w) ==
    IF u = v THEN i < j ELSE Less64(SubMod(v, u, w), Half64(w))

C32_CompAntisymmetric ==
    (order.did = {"fwd", "bwd"} /\ << order.i, order.u >> # << order.j, order.v >>)
        => ~(order.fwd /\ order.bwd)

C32_Witness ==
    /\ order.did = {"fwd", "bwd"} /\ order.enc = "dword"
    /\ order.u = Sub64(DWordW, One64).val /\ order.v = Zero64
    /\ order.i > order.j
    /\ order.fwd /\ ~order.bwd

\* the bits 63..47 of the pointer are all equal
Canonical(ptr) ==
    \/ ptr[4] = 0 /\ ptr[3] < Base \div 2
    \/ ptr[4] = Base - 1 /\ ptr[3] >= Base \div 2

\* C33: for every counter c in [0, 2^16) and every canonical pointer p (bits
\* 63..47 all equal), components_from_tagged(components_as_tagged(c, p)) is
\* exactly (c, p), and the null pointer with counter 0 encodes to the word 0.
C33_TaggedRoundTrip ==
    /\ ("untag" \in word.did /\ Less64(word.count, TaggedW)
            /\ Canonical(word.ptr))
           => /\ word.asserted
              /\ word.back = [count |-> word.count, ptr |-> word.ptr]
    /\ ("tag" \in word.did /\ word.count = Zero64 /\ word.ptr = Zero64)
           => word.tagged = Zero64

C33_Witness ==
    /\ "untag" \in word.did
    /\ word.count = << Base - 1, 0, 0, 0 >>
    /\ Canonical(word.ptr) /\ word.ptr[4] = Base - 1
    /\ word.tagged[4] = Base - 1 /\ word.tagged[3] = word.ptr[3]
    /\ word.back.ptr = word.ptr

====
